---- MODULE Spec2Model ----
(***************************************************************************)
(* Model of prj_pystray.py: a tray agent that keeps one current selection  *)
(* (project, or project + work-package), shows its icon and appends every  *)
(* change to a log file.                                                   *)
(*                                                                         *)
(* Strings that the program splits or formats are modelled as sequences of *)
(* their parts: an identifier "100-x-Alpha" is the sequence                *)
(* <<"100","-","x","-","Alpha">> of its '-' characters and of the runs of  *)
(* other characters between them, the label "100:1" is <<"100",":","1">>.  *)
(* Python's None is the empty tuple.                                       *)
(* A selection key is <<id>> (a str in the source) or <<id, wp>> (a tuple  *)
(* in the source).                                                         *)
(***************************************************************************)
EXTENDS Integers, Sequences, FiniteSets, TLC

VARIABLES
    conf,          \* json.load(config_file): sequence of <<identifier, workpackages>>
    files,         \* display names X for which myIcon_X.ico exists in the cwd
    projects,      \* the catalog (OrderedDict id -> Project)
    default,       \* the default selection key
    project,       \* PrjTray.project, the current selection key
    menu,          \* PrjTray.menu
    fallback_icon, \* PrjTray.fallback_icon
    trayIcon,      \* PrjTray.tray.icon
    log,           \* the records appended to the log file by this run
    mpc,           \* position of the main thread
    mainErr,       \* the uncaught exception that ended the main thread, or "none"
    installed,     \* g_tray is set and term_handler is installed
    bpc,           \* position of the event-loop thread
    bkey,          \* argument of the callback the event-loop thread is running
    sig,           \* term_handler frames running on top of the main thread
    stopReq,       \* tray.stop() has been called
    stoppedBy,     \* the quit paths that have called tray.stop()
    nIconSet,      \* number of assignments to tray.icon made by change_project
    nClicks,       \* number of menu clicks delivered
    nSig           \* number of SIGTERMs delivered

vars == <<conf, files, projects, default, project, menu, fallback_icon, trayIcon,
          log, mpc, mainErr, installed, bpc, bkey, sig, stopReq,
          stoppedBy, nIconSet, nClicks, nSig>>

(***************************************************************************)
(* Bounds                                                                  *)
(***************************************************************************)
MaxClicks == 2
MaxSignals == 1
MaxProjects == 2
MaxWps == 2

None == <<>>

(***************************************************************************)
(* OrderedDict: a sequence of <<key, value>> pairs with distinct keys.     *)
(* Assigning to an existing key keeps its position and replaces its value. *)
(***************************************************************************)
odHas(od, k) == \E i \in 1..Len(od) : od[i][1] = k

odGet(od, k) == od[CHOOSE i \in 1..Len(od) : od[i][1] = k][2]

\* variant: a plain list of pairs, every assignment appends
odSet_append(od, k, v) == Append(od, <<k, v>>)

odSet(od, k, v) ==
    IF odHas(od, k)
    THEN [i \in 1..Len(od) |-> IF od[i][1] = k THEN <<k, v>> ELSE od[i]]
    ELSE Append(od, <<k, v>>)

odKeys(od) == [i \in 1..Len(od) |-> od[i][1]]

(***************************************************************************)
(* Catalog construction                                                    *)
(***************************************************************************)
\* str.split(sep): the runs between the separators, "" where there is none
RECURSIVE split(_, _)
split(s, sep) ==
    IF Len(s) = 0 THEN <<"">>
    ELSE IF s[1] = sep THEN <<"">> \o split(Tail(s), sep)
    ELSE IF Len(s) = 1 THEN <<s[1]>>
    ELSE <<s[1]>> \o split(SubSeq(s, 3, Len(s)), sep)

\* variant: the name is the segment after the id
get_id_name_second(prj) ==
    LET parts == split(prj, "-")
    IN  <<parts[1], parts[IF Len(parts) > 1 THEN 2 ELSE 1]>>

\* lines 215-219
get_id_name(prj) ==
    LET parts == split(prj, "-") IN <<parts[1], parts[Len(parts)]>>

get_image_path(project_name) ==
    IF project_name \in files THEN <<"myIcon_", project_name, ".ico">> ELSE None

RECURSIVE BuildWorkpackages(_, _)
BuildWorkpackages(workpackages, n) ==
    IF n = 0 THEN <<>>
    ELSE LET wp == get_id_name(workpackages[n])
         IN  odSet(BuildWorkpackages(workpackages, n - 1), wp[1],
                   <<wp[2], get_image_path(wp[2])>>)

Project_init(identifier, workpackages) ==
    LET idn == get_id_name(identifier)
    IN  [id |-> idn[1], name |-> idn[2], icon |-> get_image_path(idn[2]),
         workpackages |-> BuildWorkpackages(workpackages, Len(workpackages))]

RECURSIVE BuildProjects(_, _)
BuildProjects(c, n) ==
    IF n = 0 THEN <<>>
    ELSE LET p == Project_init(c[n][1], c[n][2])
         IN  odSet(BuildProjects(c, n - 1), p.id, p)

\* lines 228-233; requires a non-empty catalog
DefaultKeyName(first_prj) == <<first_prj.name>>

DefaultSelection(prjs) ==
    LET first_prj == prjs[1][2]
    IN  IF Len(first_prj.workpackages) > 1
        THEN <<first_prj.id, first_prj.workpackages[1][1]>>
        ELSE DefaultKeyName(first_prj)

(***************************************************************************)
(* Project methods and PrjTray helpers                                     *)
(***************************************************************************)
IsTuple(key) == Len(key) = 2

\* get_project: the pair <<project id looked up, wp>>; wp is None or <<wp id>>
KeyProject(key) == key[1]

KeyWp(key) == IF IsTuple(key) THEN <<key[2]>> ELSE None

\* self.projects[project] raises KeyError
KeyError(key) == ~odHas(projects, KeyProject(key))

get_project(key) == <<odGet(projects, KeyProject(key)), KeyWp(key)>>

\* variant: the project's icon wins over the work-package's
get_wp_icon_project_first(p, key) ==
    IF p.icon # None THEN p.icon
    ELSE IF key # None /\ odHas(p.workpackages, key[1])
         THEN odGet(p.workpackages, key[1])[2]
         ELSE None

get_wp_icon(p, key) ==
    IF key # None /\ odHas(p.workpackages, key[1])
    THEN LET icon == odGet(p.workpackages, key[1])[2]
         IN  IF icon = None THEN p.icon ELSE icon
    ELSE p.icon

\* variant: without a work-package the label is the project id alone
get_id_without_first_wp(p, wp) ==
    IF wp = None THEN <<p.id>> ELSE <<p.id, ":", wp[1]>>

get_id(p, wp) ==
    IF wp = None
    THEN IF Len(p.workpackages) = 0
         THEN <<p.id>>
         ELSE <<p.id, ":", p.workpackages[1][1]>>
    ELSE <<p.id, ":", wp[1]>>

\* Image.open(path): the decoded image of that file
ImageOpen(path) == <<"Image", path>>

\* the info string of a quit record, f'QUIT ({trigger})'
QuitInfo(trigger) == <<"QUIT (", trigger, ")">>

\* log_text without its timestamp
LogText(info) == <<"-- changed <">> \o info \o <<">">>

(***************************************************************************)
(* make_menu                                                               *)
(***************************************************************************)
LeafItem(text, key) == [kind |-> "item", text |-> text, key |-> key, sub |-> <<>>]

SubmenuItems(id, p) ==
    [i \in 1..Len(p.workpackages) |->
        LeafItem(p.workpackages[i][2][1], <<id, p.workpackages[i][1]>>)]

\* variant: a single work-package already gets a submenu
ProjectItem_submenu_for_one(id, p) ==
    IF Len(p.workpackages) > 0
    THEN [kind |-> "submenu", text |-> p.name, key |-> None, sub |-> SubmenuItems(id, p)]
    ELSE LeafItem(p.name, <<id>>)

ProjectItem(id, p) ==
    IF Len(p.workpackages) > 1
    THEN [kind |-> "submenu", text |-> p.name, key |-> None, sub |-> SubmenuItems(id, p)]
    ELSE LeafItem(p.name, <<id>>)

MenuExitTrigger == "Menu Exit"

make_menu(prjs) ==
    [i \in 1..Len(prjs) |-> ProjectItem(prjs[i][1], prjs[i][2])]
    \o << [kind |-> "separator", text |-> "", key |-> None, sub |-> <<>>],
          [kind |-> "quit", text |-> "Quit", key |-> <<MenuExitTrigger>>, sub |-> <<>>] >>

\* the keys of the selectable leaves of a menu
LeafKeys(m) ==
    {m[i].key : i \in {j \in 1..Len(m) : m[j].kind = "item"}}
    \cup UNION {{m[i].sub[j].key : j \in 1..Len(m[i].sub)} :
                   i \in {j \in 1..Len(m) : m[j].kind = "submenu"}}

\* is_selected(key).inner, lines 99-103: the checked state of a leaf
is_selected(key) == key = project

HasQuit(m) == \E i \in 1..Len(m) : m[i].kind = "quit"

(***************************************************************************)
(* Inputs                                                                  *)
(***************************************************************************)
IconNames == {"Alpha", "Setup"}

RunConfigs ==
    { << << <<"100", "-", "Alpha">>,
            << <<"1", "-", "Setup">>, <<"2", "-", "Build">> >> >>,
         << <<"200", "-", "Beta">>, <<>> >> >>,
      << << <<"Alpha">>, << <<"1", "-", "Setup">> >> >>,
         << <<"200", "-", "Beta">>, << <<"1", "-", "Setup">> >> >> >>,
      << << <<"100", "-", "Alpha">>, <<>> >> >>,
      << << <<"100", "-", "x", "-", "Alpha">>, << <<"1", "-", "Setup">> >> >>,
         << <<"Alpha">>, << <<"1", "-", "Setup">>, <<"2", "-", "Build">> >> >> >>,
      << << <<"100", "-", "Alpha">>,
            << <<"1", "-", "Setup">>, <<"1", "-", "-", "Build">> >> >> >>,
      <<>> }

Init ==
    /\ conf \in RunConfigs
    /\ files \in SUBSET IconNames
    /\ projects = <<>>
    /\ default = None
    /\ project = None
    /\ menu = <<>>
    /\ fallback_icon = None
    /\ trayIcon = None
    /\ log = <<>>
    /\ mpc = "load"
    /\ mainErr = "none"
    /\ installed = FALSE
    /\ bpc = "notstarted"
    /\ bkey = None
    /\ sig = <<>>
    /\ stopReq = FALSE
    /\ stoppedBy = {}
    /\ nIconSet = 0
    /\ nClicks = 0
    /\ nSig = 0

\* every configuration of at most MaxProjects keys with at most MaxWps
\* work-packages each; the keys of a JSON object are distinct, the elements
\* of an array need not be
PrjIdentifiers ==
    { <<"100", "-", "Alpha">>, <<"100", "-", "x", "-", "Beta">>, <<"Alpha">> }

WpIdentifiers == { <<"1", "-", "Setup">>, <<"2", "-", "-", "Build">> }

SeqsUpTo(S, n) == UNION {[1..k -> S] : k \in 0..n}

ConfEntries == PrjIdentifiers \X SeqsUpTo(WpIdentifiers, MaxWps)

Configs ==
    {c \in SeqsUpTo(ConfEntries, MaxProjects) :
        \A i, j \in 1..Len(c) : i # j => c[i][1] # c[j][1]}

InitCat ==
    /\ conf \in Configs \cup RunConfigs
    /\ files \in SUBSET IconNames
    /\ projects = <<>>
    /\ default = None
    /\ project = None
    /\ menu = <<>>
    /\ fallback_icon = None
    /\ trayIcon = None
    /\ log = <<>>
    /\ mpc = "load"
    /\ mainErr = "none"
    /\ installed = FALSE
    /\ bpc = "notstarted"
    /\ bkey = None
    /\ sig = <<>>
    /\ stopReq = FALSE
    /\ stoppedBy = {}
    /\ nIconSet = 0
    /\ nClicks = 0
    /\ nSig = 0

inputVars == <<conf, files>>
catalogVars == <<projects, default>>
trayVars == <<project, menu, fallback_icon, trayIcon, nIconSet>>
logVars == <<log>>
bgVars == <<bpc, bkey, nClicks>>
sigVars == <<sig, nSig>>
stopVars == <<stopReq, stoppedBy>>

\* the main thread ends with an uncaught exception
MainRaise(exc) ==
    /\ mpc' = "end"
    /\ mainErr' = exc

(***************************************************************************)
(* Startup, main thread (lines 222-246)                                    *)
(***************************************************************************)
\* lines 222-225
LoadCatalog ==
    /\ mpc = "load"
    /\ projects' = BuildProjects(conf, Len(conf))
    /\ mpc' = "default"
    /\ UNCHANGED <<inputVars, default, trayVars, logVars, mainErr, installed,
                   bgVars, sigVars, stopVars>>

\* lines 228-233; next(iter(...)) of an empty catalog raises StopIteration
ComputeDefault ==
    /\ mpc = "default"
    /\ IF Len(projects) = 0
       THEN /\ MainRaise("StopIteration")
            /\ UNCHANGED default
       ELSE /\ default' = DefaultSelection(projects)
            /\ mpc' = "init"
            /\ UNCHANGED mainErr
    /\ UNCHANGED <<inputVars, projects, trayVars, logVars, installed,
                   bgVars, sigVars, stopVars>>

\* PrjTray.__init__, lines 27-33
TrayInit ==
    /\ mpc = "init"
    /\ project' = default
    /\ menu' = make_menu(projects)
    /\ mpc' = "init_icon"
    /\ UNCHANGED <<inputVars, catalogVars, fallback_icon, trayIcon, nIconSet,
                   logVars, mainErr, installed, bgVars, sigVars, stopVars>>

\* PrjTray.__init__, lines 35-39; Image.open(None) raises
TrayInitIcon ==
    /\ mpc = "init_icon"
    /\ IF KeyError(default)
       THEN /\ MainRaise("KeyError")
            /\ UNCHANGED <<fallback_icon, trayIcon>>
       ELSE LET pw == get_project(default)
                path == get_wp_icon(pw[1], pw[2])
            IN  IF path = None
                THEN /\ MainRaise("ImageOpenNone")
                     /\ UNCHANGED <<fallback_icon, trayIcon>>
                ELSE /\ fallback_icon' = ImageOpen(path)
                     /\ trayIcon' = ImageOpen(path)
                     /\ mpc' = "cp_set"
                     /\ UNCHANGED mainErr
    /\ UNCHANGED <<inputVars, catalogVars, project, menu, nIconSet, logVars,
                   installed, bgVars, sigVars, stopVars>>

(***************************************************************************)
(* change_project and log_change, shared by the constructor (main thread)  *)
(* and by the click callback (event-loop thread).  Each of the three steps *)
(* below is one point at which the other thread can run.                   *)
(***************************************************************************)
\* lines 121-127: the icon change_project displays for new_key
ResolveIcon(new_key) ==
    LET pw == get_project(new_key)
        icon_path == get_wp_icon(pw[1], pw[2])
    IN  IF icon_path # None THEN ImageOpen(icon_path) ELSE fallback_icon

\* line 133: the label change_project logs for new_key
ChangeInfo(new_key) ==
    LET pw == get_project(new_key) IN get_id(pw[1], pw[2])

\* variant: line 119 missing
SetProject_skipped(new_key) == UNCHANGED project

\* line 119
SetProject(new_key) == project' = new_key

\* variant: the icon shown becomes the new fallback
SetIcon_recache(new_key) ==
    /\ trayIcon' = ResolveIcon(new_key)
    /\ nIconSet' = nIconSet + 1
    /\ fallback_icon' = ResolveIcon(new_key)

\* lines 121-131; self.fallback_icon is read and never assigned
SetIcon(new_key) ==
    /\ trayIcon' = ResolveIcon(new_key)
    /\ nIconSet' = nIconSet + 1
    /\ UNCHANGED fallback_icon

\* variant: the file is opened with mode 'w', which truncates it
log_change_truncate(info, ok) ==
    log' = IF ok THEN <<LogText(info)>> ELSE log

\* log_change, lines 138-146: the record is appended to the file, unless
\* open() or write() fails with OSError (ok = FALSE)
log_change(info, ok) ==
    log' = IF ok THEN Append(log, LogText(info)) ELSE log

MainCpSet ==
    /\ mpc = "cp_set"
    /\ SetProject(default)
    /\ mpc' = "cp_icon"
    /\ UNCHANGED <<inputVars, catalogVars, menu, fallback_icon, trayIcon, nIconSet,
                   logVars, mainErr, installed, bgVars, sigVars, stopVars>>

MainCpIcon ==
    /\ mpc = "cp_icon"
    /\ SetIcon(default)
    /\ mpc' = "cp_log"
    /\ UNCHANGED <<inputVars, catalogVars, project, menu, log,
                   mainErr, installed, bgVars, sigVars, stopVars>>

MainCpLog ==
    /\ mpc = "cp_log"
    /\ \E ok \in BOOLEAN :
        /\ log_change(ChangeInfo(default), ok)
        /\ IF ok THEN mpc' = "install" /\ UNCHANGED mainErr
                 ELSE MainRaise("OSError")
    /\ UNCHANGED <<inputVars, catalogVars, trayVars, installed, bgVars, sigVars,
                   stopVars>>

\* lines 239-241
InstallHandler ==
    /\ mpc = "install"
    /\ installed' = TRUE
    /\ mpc' = "start"
    /\ UNCHANGED <<inputVars, catalogVars, trayVars, logVars, mainErr, bgVars,
                   sigVars, stopVars>>

\* lines 245-248: the event loop runs on its own thread, the main thread joins
StartThread ==
    /\ mpc = "start"
    /\ bpc' = "idle"
    /\ mpc' = "join"
    /\ UNCHANGED <<inputVars, catalogVars, trayVars, logVars, mainErr, installed,
                   bkey, nClicks, sigVars, stopVars>>

(***************************************************************************)
(* Event-loop thread: menu callbacks                                       *)
(***************************************************************************)
LoopRunning == bpc = "idle" /\ ~stopReq

\* variant: quit(trigger).inner stops the loop without logging
quit_entry_stop_only == "q_stop"

\* quit(trigger).inner starts with its log_change (line 151), then stops the
\* loop (line 152)
quit_entry == "q_log"

\* the host calls on_click(key).inner for a leaf of the menu
Click(key) ==
    /\ LoopRunning
    /\ nClicks < MaxClicks
    /\ key \in LeafKeys(menu)
    /\ bpc' = "on_click"
    /\ bkey' = key
    /\ nClicks' = nClicks + 1
    /\ UNCHANGED <<inputVars, catalogVars, trayVars, logVars, mpc, mainErr,
                   installed, sigVars, stopVars>>

\* variant: the comparison of line 108 never succeeds
NoChange_never(key) == FALSE

\* lines 108-112
NoChange(key) == project = key

OnClick ==
    /\ bpc = "on_click"
    /\ IF NoChange(bkey)
       THEN bpc' = "no_change"
       ELSE bpc' = "cp_set"
    /\ UNCHANGED <<inputVars, catalogVars, trayVars, logVars, mpc, mainErr,
                   installed, bkey, nClicks, sigVars, stopVars>>

\* lines 109-110: 'No change' is printed and the callback returns
OnClickReturn ==
    /\ bpc = "no_change"
    /\ bpc' = "idle"
    /\ bkey' = None
    /\ UNCHANGED <<inputVars, catalogVars, trayVars, logVars, mpc, mainErr,
                   installed, nClicks, sigVars, stopVars>>

BgCpSet ==
    /\ bpc = "cp_set"
    /\ SetProject(bkey)
    /\ bpc' = IF KeyError(bkey) THEN "raised" ELSE "cp_icon"
    /\ UNCHANGED <<inputVars, catalogVars, menu, fallback_icon, trayIcon, nIconSet,
                   logVars, mpc, mainErr, installed, bkey, nClicks, sigVars, stopVars>>

BgCpIcon ==
    /\ bpc = "cp_icon"
    /\ SetIcon(bkey)
    /\ bpc' = "cp_log"
    /\ UNCHANGED <<inputVars, catalogVars, project, menu, log,
                   mpc, mainErr, installed, bkey, nClicks, sigVars, stopVars>>

\* an OSError leaves change_project and on_click's inner uncaught
BgCpLog ==
    /\ bpc = "cp_log"
    /\ \E ok \in BOOLEAN :
        /\ log_change(ChangeInfo(bkey), ok)
        /\ bpc' = IF ok THEN "idle" ELSE "raised"
        /\ bkey' = IF ok THEN None ELSE bkey
    /\ UNCHANGED <<inputVars, catalogVars, trayVars, mpc, mainErr, installed,
                   nClicks, sigVars, stopVars>>

\* the host calls quit('Menu Exit').inner for the Quit entry
ClickQuit ==
    /\ LoopRunning
    /\ HasQuit(menu)
    /\ bpc' = quit_entry
    /\ bkey' = <<MenuExitTrigger>>
    /\ UNCHANGED <<inputVars, catalogVars, trayVars, logVars, mpc, mainErr,
                   installed, nClicks, sigVars, stopVars>>

\* line 151
BgQuitLog ==
    /\ bpc = "q_log"
    /\ \E ok \in BOOLEAN :
        /\ log_change(QuitInfo(bkey[1]), ok)
        /\ bpc' = IF ok THEN "q_stop" ELSE "raised"
    /\ UNCHANGED <<inputVars, catalogVars, trayVars, mpc, mainErr, installed,
                   bkey, nClicks, sigVars, stopVars>>

\* line 152
BgQuitStop ==
    /\ bpc = "q_stop"
    /\ stopReq' = TRUE
    /\ stoppedBy' = stoppedBy \cup {"menu"}
    /\ bpc' = "idle"
    /\ bkey' = None
    /\ UNCHANGED <<inputVars, catalogVars, trayVars, logVars, mpc, mainErr,
                   installed, nClicks, sigVars>>

\* An exception that left a callback is in the hands of the host's event
\* loop: a backend either reports it and goes on waiting for events, or lets
\* it end tray.run and with it the thread.
HostSwallow ==
    /\ bpc = "raised"
    /\ bpc' = "idle"
    /\ bkey' = None
    /\ UNCHANGED <<inputVars, catalogVars, trayVars, logVars, mpc, mainErr,
                   installed, nClicks, sigVars, stopVars>>

HostPropagate ==
    /\ bpc = "raised"
    /\ bpc' = "dead"
    /\ UNCHANGED <<inputVars, catalogVars, trayVars, logVars, mpc, mainErr,
                   installed, bkey, nClicks, sigVars, stopVars>>

\* tray.run returns once tray.stop() has been called
LoopExit ==
    /\ bpc = "idle"
    /\ stopReq
    /\ bpc' = "finished"
    /\ UNCHANGED <<inputVars, catalogVars, trayVars, logVars, mpc, mainErr,
                   installed, bkey, nClicks, sigVars, stopVars>>

(***************************************************************************)
(* Main thread after startup: join, term_handler, KeyboardInterrupt        *)
(*                                                                         *)
(* Python runs a signal handler on the main thread, on top of whatever the *)
(* main thread is doing (here: th.join(), the except clause, or another    *)
(* handler), while the event-loop thread keeps running.  Signals that      *)
(* arrive before the thread is started or while the interpreter shuts down *)
(* are not modelled.                                                       *)
(***************************************************************************)
TermTrigger == "SIGTERM"

IntTrigger == "SIGINT"

MainAfterStart == mpc \in {"join", "q_log", "q_stop"}

Top(s) == s[Len(s)]

Pop(s) == SubSeq(s, 1, Len(s) - 1)

\* term_handler, lines 188-192: g_tray is set before the handler is installed
SigTerm ==
    /\ installed
    /\ MainAfterStart
    /\ nSig < MaxSignals
    /\ sig' = Append(sig, quit_entry)
    /\ nSig' = nSig + 1
    /\ UNCHANGED <<inputVars, catalogVars, trayVars, logVars, mpc, mainErr,
                   installed, bgVars, stopVars>>

\* line 151, called from line 192; an OSError unwinds the handler and the
\* main thread's frame below it, which catches only KeyboardInterrupt
SigQuitLog ==
    /\ sig # <<>>
    /\ Top(sig) = "q_log"
    /\ \E ok \in BOOLEAN :
        /\ log_change(QuitInfo(TermTrigger), ok)
        /\ IF ok
           THEN /\ sig' = Append(Pop(sig), "q_stop")
                /\ UNCHANGED <<mpc, mainErr>>
           ELSE /\ sig' = <<>>
                /\ MainRaise("OSError")
    /\ UNCHANGED <<inputVars, catalogVars, trayVars, installed, bgVars, nSig,
                   stopVars>>

\* line 152, called from line 192
SigQuitStop ==
    /\ sig # <<>>
    /\ Top(sig) = "q_stop"
    /\ stopReq' = TRUE
    /\ stoppedBy' = stoppedBy \cup {"signal"}
    /\ sig' = Pop(sig)
    /\ UNCHANGED <<inputVars, catalogVars, trayVars, logVars, mpc, mainErr,
                   installed, bgVars, nSig>>

\* Ctrl-C: KeyboardInterrupt is raised in the main thread.  Inside the try
\* (line 248) it unwinds any running handler and reaches the except clause;
\* inside the except clause nothing catches it.
Interrupt ==
    /\ MainAfterStart
    /\ sig' = <<>>
    /\ IF mpc = "join"
       THEN mpc' = quit_entry /\ UNCHANGED mainErr
       ELSE MainRaise("KeyboardInterrupt")
    /\ UNCHANGED <<inputVars, catalogVars, trayVars, logVars, installed, bgVars,
                   nSig, stopVars>>

\* line 250 -> line 151
MainQuitLog ==
    /\ mpc = "q_log"
    /\ sig = <<>>
    /\ \E ok \in BOOLEAN :
        /\ log_change(QuitInfo(IntTrigger), ok)
        /\ IF ok THEN mpc' = "q_stop" /\ UNCHANGED mainErr
                 ELSE MainRaise("OSError")
    /\ UNCHANGED <<inputVars, catalogVars, trayVars, installed, bgVars, sigVars,
                   stopVars>>

\* line 250 -> line 152
MainQuitStop ==
    /\ mpc = "q_stop"
    /\ sig = <<>>
    /\ stopReq' = TRUE
    /\ stoppedBy' = stoppedBy \cup {"interrupt"}
    /\ mpc' = "end"
    /\ UNCHANGED <<inputVars, catalogVars, trayVars, logVars, mainErr, installed,
                   bgVars, sigVars>>

BgTerminated == bpc \in {"finished", "dead"}

\* line 248: th.join() returns when the event-loop thread has ended
JoinReturn ==
    /\ mpc = "join"
    /\ sig = <<>>
    /\ BgTerminated
    /\ mpc' = "end"
    /\ UNCHANGED <<inputVars, catalogVars, trayVars, logVars, mainErr, installed,
                   bgVars, sigVars, stopVars>>

\* the process exits when the main thread has ended and the (non-daemon)
\* event-loop thread is not running
ProcessExit ==
    /\ mpc = "end"
    /\ bpc = "notstarted" \/ BgTerminated
    /\ mpc' = "exited"
    /\ UNCHANGED <<inputVars, catalogVars, trayVars, logVars, mainErr, installed,
                   bgVars, sigVars, stopVars>>

(***************************************************************************)
(* Specifications                                                          *)
(***************************************************************************)
MainStep ==
    \/ LoadCatalog
    \/ ComputeDefault
    \/ TrayInit
    \/ TrayInitIcon
    \/ MainCpSet
    \/ MainCpIcon
    \/ MainCpLog
    \/ InstallHandler
    \/ StartThread
    \/ SigQuitLog
    \/ SigQuitStop
    \/ MainQuitLog
    \/ MainQuitStop
    \/ JoinReturn
    \/ ProcessExit

BgStep ==
    \/ OnClick
    \/ OnClickReturn
    \/ BgCpSet
    \/ BgCpIcon
    \/ BgCpLog
    \/ BgQuitLog
    \/ BgQuitStop
    \/ HostSwallow
    \/ HostPropagate
    \/ LoopExit

Environment ==
    \/ \E key \in LeafKeys(menu) : Click(key)
    \/ ClickQuit
    \/ SigTerm
    \/ Interrupt

Next == MainStep \/ BgStep \/ Environment

Spec == Init /\ [][Next]_vars

\* both threads are scheduled fairly; clicks and signals may never come
\* the construction of the catalog, of the default selection and of the
\* menu, for every configuration within the bounds
NextCat == LoadCatalog \/ ComputeDefault \/ TrayInit

SpecCat == InitCat /\ [][NextCat]_vars

SpecFair == Spec /\ WF_vars(MainStep) /\ WF_vars(BgStep)

(***************************************************************************)
(* Properties                                                              *)
(*                                                                         *)
(* What the specification says a key, an icon, a label and a record are,   *)
(* written from the catalog alone.                                         *)
(***************************************************************************)
CatalogProject(k) == projects[CHOOSE i \in 1..Len(projects) : projects[i][1] = k[1]][2]

ValidKey(k) ==
    /\ k # None
    /\ \E i \in 1..Len(projects) : projects[i][1] = k[1]
    /\ Len(k) = 2 =>
         \E j \in 1..Len(CatalogProject(k).workpackages) :
             CatalogProject(k).workpackages[j][1] = k[2]

\* the icon path of the work-package a ProjectWorkPackage key names, else None
SelectedWpIcon(k) ==
    IF Len(k) = 2
    THEN LET wps == CatalogProject(k).workpackages
         IN  wps[CHOOSE j \in 1..Len(wps) : wps[j][1] = k[2]][2][2]
    ELSE None

\* the fallback chain: work-package icon, project icon, cached startup icon
ExpectedIcon(k) ==
    IF SelectedWpIcon(k) # None THEN <<"Image", SelectedWpIcon(k)>>
    ELSE IF CatalogProject(k).icon # None THEN <<"Image", CatalogProject(k).icon>>
    ELSE fallback_icon

ExpectedLabel(k) ==
    LET p == CatalogProject(k)
    IN  IF Len(k) = 2 THEN <<p.id, ":", k[2]>>
        ELSE IF Len(p.workpackages) >= 1 THEN <<p.id, ":", p.workpackages[1][1]>>
        ELSE <<p.id>>

ExpectedRecord(info) == <<"-- changed <">> \o info \o <<">">>

ExpectedDefault(prjs) ==
    LET first == prjs[1][2]
    IN  IF Len(first.workpackages) > 1
        THEN <<prjs[1][1], first.workpackages[1][1]>>
        ELSE <<prjs[1][1]>>

\* the event-loop thread takes a step of the callback it is running
BgMoves == bpc' # bpc

\* the main thread takes a step of its own code (not of a signal handler)
MainMoves == mpc' # mpc /\ sig' = sig

SameKeyClick == bpc \in {"on_click", "no_change"} /\ bkey = project

StartupTransition == mpc \in {"cp_set", "cp_icon", "cp_log"} /\ default = project

NothingSelected == project' = project /\ nIconSet' = nIconSet /\ log' = log

\* C1, as stated: every Transition(k) performed while current = k, whether a
\* click on the leaf keyed k or the constructor's change_project(default),
\* leaves current unchanged, assigns no icon and appends no record.
C1_SameKeyTransitionIsNoOp ==
    [][ ((SameKeyClick /\ BgMoves) \/ (StartupTransition /\ MainMoves))
            => NothingSelected ]_vars

\* C1, amended: a click on the leaf keyed k while current = k leaves current
\* unchanged, assigns no icon, appends no record and returns; only the
\* constructor's change_project(default) acts while current = default.
C1_SameKeyClickIsNoOp ==
    [][ (SameKeyClick /\ BgMoves)
            => (NothingSelected /\ bpc' \in {"no_change", "idle"}) ]_vars

C1_Witness == bpc = "no_change" /\ bkey = project /\ ValidKey(bkey)

C3_DefaultSelection ==
    (default # None /\ Len(projects) > 0) => default = ExpectedDefault(projects)

\* C4: current is always a valid selection key.
C4_CurrentIsValid == project # None => ValidKey(project)

\* C5: startup never fails because an icon file is absent.
C5_StartupWithoutIcons == mainErr # "ImageOpenNone"

\* C6: the icon a Transition displays for its key is the selected
\* work-package's icon when present, else the project's icon when present,
\* else the icon cached at startup; the cached icon is the one resolved for
\* the default selection.
C6_IconPrecedence ==
    /\ bpc = "cp_log" => trayIcon = ExpectedIcon(bkey)
    /\ mpc = "cp_log" => trayIcon = ExpectedIcon(default)
    /\ fallback_icon # None =>
         fallback_icon =
             <<"Image", IF SelectedWpIcon(default) # None
                        THEN SelectedWpIcon(default)
                        ELSE CatalogProject(default).icon>>

\* a ProjectWorkPackage key with neither icon present shows the cached icon
C6_Witness ==
    /\ bpc = "cp_log"
    /\ Len(bkey) = 2
    /\ SelectedWpIcon(bkey) = None
    /\ CatalogProject(bkey).icon = None
    /\ trayIcon = fallback_icon
    /\ trayIcon # None

\* a Transition of the event-loop thread has replaced current (line 119) and
\* has not yet appended its record (line 146)
MidTransition == bpc \in {"cp_icon", "cp_log"}

\* C7: while a Transition has replaced current but not yet appended its own
\* record, nothing but that Transition runs: no other record is appended and
\* nobody else writes current or the icon.
C7_TransitionAtomic ==
    [][ (MidTransition /\ ~BgMoves)
            => (log' = log /\ project' = project /\ trayIcon' = trayIcon) ]_vars

PathReason(path) ==
    CASE path = "menu" -> "Menu Exit"
      [] path = "signal" -> "SIGTERM"
      [] path = "interrupt" -> "SIGINT"

QuitRecord(reason) == ExpectedRecord(<<"QUIT (", reason, ")">>)

InLog(record) == \E i \in 1..Len(log) : log[i] = record

\* C8: a quit path that has stopped the event loop has appended the QUIT
\* record with its own reason before; the loop is never stopped, and never
\* ends by being stopped, without a QUIT record in the log.
C8_QuitLoggedBeforeStop ==
    /\ \A path \in stoppedBy : InLog(QuitRecord(PathReason(path)))
    /\ stopReq => \E path \in {"menu", "signal", "interrupt"} :
                      InLog(QuitRecord(PathReason(path)))
    /\ bpc = "finished" => stopReq

\* all three quit paths have stopped the loop in one run
C8_Witness == stoppedBy = {"menu", "signal", "interrupt"}

QuitTriggered == bpc = "q_log" \/ sig # <<>> \/ mpc = "q_log"

\* C9: once a quit path is triggered, the event loop eventually ends, the
\* main thread resumes from its join and the process exits.  (A run in which
\* a second KeyboardInterrupt ends the main thread inside the except clause
\* is not held against the claim.)
C9_QuitTerminates ==
    QuitTriggered ~>
        ((BgTerminated /\ mpc = "exited") \/ mainErr = "KeyboardInterrupt")

\* the append of a click's Transition has failed: its OSError is leaving
\* on_click's inner
TransitionAppendFailed == bpc = "raised" /\ bkey \in LeafKeys(menu)

\* an exception has left a callback of the event loop uncaught, or has ended
\* the event-loop thread
CallbackCrashed == bpc \in {"raised", "dead"}

\* C10: when the append fails during a Transition(k), nothing crashes,
\* current = k and the icon resolved for k is displayed.
C10_AppendFailureTolerated ==
    TransitionAppendFailed =>
        (~CallbackCrashed /\ project = bkey /\ trayIcon = ExpectedIcon(bkey))

\* the main thread is about to start the event loop (line 245): from the next
\* step on a click can be handled
LoopAboutToStart == mpc = "start"

\* C11: when the event loop is started, startup has performed exactly one
\* Transition, the log holds exactly one record, and that record is the label
\* of the default selection of the catalog.
C11_StartupRecord ==
    LoopAboutToStart =>
        /\ nIconSet = 1
        /\ log = <<ExpectedRecord(ExpectedLabel(ExpectedDefault(projects)))>>

\* the label the specification gives a selection key, case by case
LabelIs(k, info) ==
    LET p == CatalogProject(k)
    IN  /\ (Len(k) = 1 /\ Len(p.workpackages) = 0) => info = <<p.id>>
        /\ (Len(k) = 1 /\ Len(p.workpackages) >= 1) =>
               info = <<p.id, ":", p.workpackages[1][1]>>
        /\ Len(k) = 2 => info = <<p.id, ":", k[2]>>

\* the record a step has appended to the log is the selection record of k
AppendedFor(k) ==
    /\ Len(log') = Len(log) + 1
    /\ \E info \in {ChangeInfo(k)} :
          /\ log'[Len(log')] = ExpectedRecord(info)
          /\ LabelIs(k, info)

\* C12: the record a Transition appends carries the project id alone for a
\* ProjectOnly key of a project without work-packages, "<id>:<first
\* work-package id>" for a ProjectOnly key of a project with work-packages,
\* and "<id>:<work-package id>" for a ProjectWorkPackage key.
C12_LogLabel ==
    [][ /\ (bpc = "cp_log" /\ bpc' = "idle") => AppendedFor(bkey)
        /\ (mpc = "cp_log" /\ mpc' = "install") => AppendedFor(default) ]_vars

\* a click on a ProjectOnly leaf of a project that has a work-package has
\* logged the project with its first work-package
C12_Witness ==
    /\ bpc = "idle"
    /\ nClicks > 0
    /\ Len(project) = 1
    /\ Len(CatalogProject(project).workpackages) >= 1
    /\ log[Len(log)] =
         ExpectedRecord(<<project[1], ":", CatalogProject(project).workpackages[1][1]>>)

\* the constructor has built the menu (line 33)
MenuBuilt == menu # <<>>

KindCount(kind) == Cardinality({i \in 1..Len(menu) : menu[i].kind = kind})

\* C13: the menu lists the projects in catalog order, a project with at most
\* one work-package as one leaf keyed ProjectOnly(project.id), a project with
\* two or more as a submenu of one leaf per work-package in catalog order,
\* keyed ProjectWorkPackage(project.id, wp.id); it ends with exactly one
\* separator followed by exactly one Quit entry.
C13_MenuShape ==
    MenuBuilt =>
        /\ Len(menu) = Len(projects) + 2
        /\ \A i \in 1..Len(projects) :
             LET p == projects[i][2]
                 n == Len(p.workpackages)
             IN  /\ n <= 1 => (menu[i].kind = "item" /\ menu[i].key = <<p.id>>)
                 /\ n >= 2 =>
                      /\ menu[i].kind = "submenu"
                      /\ Len(menu[i].sub) = n
                      /\ \A j \in 1..n :
                           /\ menu[i].sub[j].kind = "item"
                           /\ menu[i].sub[j].key = <<p.id, p.workpackages[j][1]>>
        /\ menu[Len(menu) - 1].kind = "separator"
        /\ menu[Len(menu)].kind = "quit"
        /\ KindCount("separator") = 1
        /\ KindCount("quit") = 1

\* a menu with a submenu of two leaves and a leaf of a project that has
\* exactly one work-package
C13_Witness ==
    /\ MenuBuilt
    /\ \E i, j \in 1..Len(projects) :
          /\ menu[i].kind = "submenu"
          /\ Len(menu[i].sub) = 2
          /\ menu[j].kind = "item"
          /\ Len(projects[j][2].workpackages) = 1

\* An identifier seen as its '-'-separated segments: the first segment is the
\* run before the first '-', the last segment the run after the last '-',
\* and there is one segment more than there are '-' characters.
Dashes(s) == {i \in 1..Len(s) : s[i] = "-"}

SegmentCount(s) == Cardinality(Dashes(s)) + 1

ParsedId(s) == IF Len(s) = 0 \/ s[1] = "-" THEN "" ELSE s[1]

ParsedName(s) == IF Len(s) = 0 \/ s[Len(s)] = "-" THEN "" ELSE s[Len(s)]

\* the parsed ids and names of a sequence of identifiers
ParsedIds(idents) == [i \in 1..Len(idents) |-> ParsedId(idents[i])]

ParsedNames(idents) == [i \in 1..Len(idents) |-> ParsedName(idents[i])]

FirstAt(ids, id) ==
    CHOOSE i \in 1..Len(ids) : ids[i] = id /\ \A j \in 1..(i - 1) : ids[j] # id

LastAt(ids, id) ==
    CHOOSE i \in 1..Len(ids) : ids[i] = id /\ \A j \in (i + 1)..Len(ids) : ids[j] # id

ConfKeys == [i \in 1..Len(conf) |-> conf[i][1]]

CatalogBuilt == mpc # "load"

\* one entry per element of idents, in the order of idents, under its name
OnePerElement(od, idents, NameOf(_)) ==
    /\ Len(od) = Len(idents)
    /\ \A i \in 1..Len(idents) :
          od[i][1] = ParsedId(idents[i]) /\ NameOf(od[i][2]) = ParsedName(idents[i])

\* one entry per distinct parsed id of idents, in the order in which the ids
\* first occur, under the name of the last identifier with that id
OnePerDistinctId(od, idents, NameOf(_)) ==
    LET ids == ParsedIds(idents)
        names == ParsedNames(idents)
    IN  /\ Len(od) = Cardinality({ids[i] : i \in 1..Len(ids)})
        /\ \A a \in 1..Len(od) :
              /\ \E i \in 1..Len(ids) : ids[i] = od[a][1]
              /\ NameOf(od[a][2]) = names[LastAt(ids, od[a][1])]
        /\ \A a \in 1..(Len(od) - 1) :
              FirstAt(ids, od[a][1]) < FirstAt(ids, od[a + 1][1])

ProjectName(p) == p.name

WpName(wp) == wp[1]

ConfIdentifiers ==
    {conf[i][1] : i \in 1..Len(conf)}
    \cup UNION {{conf[i][2][j] : j \in 1..Len(conf[i][2])} : i \in 1..Len(conf)}

\* C15: parsing an identifier gives its first segment as id and its last
\* segment as name, whatever lies between them; an identifier of a single
\* segment gives that segment as both; the catalog is keyed by the ids so
\* obtained.
C15_IdentifierParsing ==
    /\ \A s \in ConfIdentifiers :
          /\ get_id_name(s) = <<ParsedId(s), ParsedName(s)>>
          /\ SegmentCount(s) = 1 => get_id_name(s) = <<s[1], s[1]>>
    /\ CatalogBuilt =>
          \A i \in 1..Len(conf) :
              /\ odHas(projects, ParsedId(conf[i][1]))
              /\ odGet(projects, ParsedId(conf[i][1])).id = ParsedId(conf[i][1])

\* a catalog built from a key of three segments and a key of one segment
C15_Witness ==
    /\ CatalogBuilt
    /\ \E i, j \in 1..Len(conf) :
          /\ SegmentCount(conf[i][1]) = 3
          /\ odGet(projects, conf[i][1][1]).name = conf[i][1][5]
          /\ SegmentCount(conf[j][1]) = 1
          /\ odGet(projects, conf[j][1][1]).name = conf[j][1][1]

\* the steps that assign current: the constructor's initialisation (line 27)
\* and the first step of a Transition run by a click (line 119)
AssignsCurrent == mpc = "init" \/ (bpc = "cp_set" /\ BgMoves)

\* the steps the claim lists: the comparison of a click and its 'No change'
\* return, an append to the log, and the steps of the three quit paths
ListedStep ==
    \/ bpc \in {"on_click", "no_change", "cp_log", "q_log", "q_stop"} /\ BgMoves
    \/ mpc \in {"cp_log", "q_log", "q_stop"} /\ MainMoves
    \/ sig # <<>> /\ sig' # sig

\* C16: current is assigned by a Transition only (and by the constructor's
\* initialisation); a no-change click, an append to the log and every quit
\* path leave current, the catalog and the cached fallback icon unchanged;
\* the catalog and the cached icon are written once, at startup.
C16_OnlyTransitionChangesCurrent ==
    [][ /\ project' # project => AssignsCurrent
        /\ projects' # projects => mpc = "load"
        /\ fallback_icon' # fallback_icon => mpc = "init_icon"
        /\ ListedStep => /\ project' = project
                         /\ projects' = projects
                         /\ fallback_icon' = fallback_icon ]_vars

\* a quit path has logged and stopped the loop after a click had changed
\* current: current is still the clicked key
C16_Witness ==
    /\ stopReq
    /\ nClicks > 0
    /\ project # default
    /\ project \in LeafKeys(menu)
    /\ Len(log) >= 3

\* the selectable leaves of the menu, by position: <<i>> at the top level,
\* <<i, j>> inside the submenu at i
LeafPositions ==
    {<<i>> : i \in {k \in 1..Len(menu) : menu[k].kind = "item"}}
    \cup UNION {{<<i, j>> : j \in 1..Len(menu[i].sub)} :
                   i \in {k \in 1..Len(menu) : menu[k].kind = "submenu"}}

LeafAt(pos) == IF Len(pos) = 1 THEN menu[pos[1]] ELSE menu[pos[1]].sub[pos[2]]

SelectedLeaves == {pos \in LeafPositions : is_selected(LeafAt(pos).key)}

\* the event loop has been started
AfterStartup == bpc # "notstarted"

\* C17: after startup exactly one selectable leaf of the menu is shown as
\* selected, the leaf whose key is current.
C17_ExactlyOneSelected ==
    AfterStartup =>
        /\ Cardinality(SelectedLeaves) = 1
        /\ \A pos \in SelectedLeaves : LeafAt(pos).key = project

\* startup has completed: the constructor has returned (line 237)
StartupDone == mpc = "install" \/ installed

\* no Transition is in progress
Quiescent == StartupDone /\ bpc \notin {"cp_set", "cp_icon", "cp_log"}

IsQuitRecord(record) == record[2] = "QUIT ("

SelectionRecords(l) == {i \in 1..Len(l) : ~IsQuitRecord(l[i])}

\* the most recent selection record of the log is the label of current
RecordOfCurrent ==
    /\ SelectionRecords(log) # {}
    /\ LET last == CHOOSE i \in SelectionRecords(log) :
                       \A j \in SelectionRecords(log) : j <= i
       IN  log[last] = ExpectedRecord(ExpectedLabel(project))

IconOfCurrent == trayIcon = ExpectedIcon(project)

AppendOnly == log' = log \/ (Len(log') = Len(log) + 1 /\ SubSeq(log', 1, Len(log)) = log)

\* a Transition ends with its record appended
TransitionCompletes ==
    (bpc = "cp_log" /\ bpc' = "idle") \/ (mpc = "cp_log" /\ mpc' = "install")

\* a step neither assigns current nor appends a selection record
NoSelectionChange ==
    /\ project' = project
    /\ log' = log \/ IsQuitRecord(log'[Len(log')])

\* C18, as stated: whenever no Transition is in progress the displayed icon
\* is the one of the fallback chain for current and the most recent selection
\* record of the log is the label of current; the log only grows by
\* appending.
C18_LogFollowsCurrent ==
    /\ [](Quiescent => (IconOfCurrent /\ RecordOfCurrent))
    /\ [][AppendOnly]_vars

\* C18, amended: whenever no Transition is in progress the displayed icon is
\* the one of the fallback chain for current; the most recent selection
\* record is the label of current once a Transition has appended its record,
\* and no step outside a Transition assigns current or appends a selection
\* record (a Transition whose append fails leaves the previous selection
\* record the most recent one); the log only grows by appending.
C18_LogFollowsCompletedTransition ==
    /\ [](Quiescent => IconOfCurrent)
    /\ [][ /\ AppendOnly
           /\ TransitionCompletes => RecordOfCurrent'
           /\ (Quiescent /\ Quiescent') => NoSelectionChange ]_vars

\* after a Transition whose append failed, a second Transition has appended
\* its record: the log follows current again
C18_Witness ==
    /\ bpc = "idle"
    /\ nIconSet = 3
    /\ Cardinality(SelectionRecords(log)) = 2
    /\ project # default
    /\ RecordOfCurrent
    /\ IconOfCurrent

QuitRecords(l) == {i \in 1..Len(l) : IsQuitRecord(l[i])}

\* C19: the log of a run holds at most one QUIT record, and no selection
\* record follows it.
C19_SingleFinalQuitRecord ==
    /\ Cardinality(QuitRecords(log)) <= 1
    /\ \A i \in QuitRecords(log) : \A j \in SelectionRecords(log) : j < i

====
